---- MODULE Spec2Model ----
(***************************************************************************)
(* Model of the LLM-TextKit orchestration code:                            *)
(*   - classify_texts          (backend/clustering/clustering_workflow.py) *)
(*   - generate_categories     (backend/clustering/clustering_workflow.py) *)
(*   - Translator.translate    (backend/translation/translator.py)         *)
(*   - translate_text, batch_translate, perform_translation                *)
(*                             (frontend/page/ai_translation.py)           *)
(*   - async_batch_analyze     (backend/classification/...workflow.py)     *)
(*   - batch_classify          (frontend/page/sentiment_analysis.py)       *)
(* One run of one entry point is one behaviour; Init chooses the entry     *)
(* point and its arguments, the language model's replies are chosen        *)
(* nondeterministically at each call.                                      *)
(***************************************************************************)
EXTENDS Integers, Sequences, FiniteSets, TLC

\* ---------------------------------------------------------------- bounds
MaxRows == 3        \* rows of the preprocessed dataset given to classify_texts
MaxMultiRows == 2   \* the same, for a multi-label run
MaxTexts == 2       \* items handed to batch_translate
MaxAnalyze == 4     \* items handed to batch_classify / async_batch_analyze
MaxPermits == 2     \* max_concurrent / max_concurrency argument
MaxGenBatches == 2  \* text batches handed to generate_initial_categories
MaxLen == 4         \* characters of a text given to is_valid_text
MaxPreRows == 3     \* rows of a table given to the text utilities
MaxBatch == 3       \* batch_size / rows_per_table argument
MaxSessionRows == 2 \* rows of the file loaded in a page session
MaxClicks == 2      \* button clicks of a page session after the data is loaded

\* ------------------------------------------------------- value universes
Null == "null"                  \* None / NaN in a string-valued cell
NoId == 0                       \* NaN in the id column of an unmatched row
Categories == {"A", "B"}        \* category names the model may answer

NoSession == "none"             \* session_id=None
Uuids == {"u1", "u2"}           \* values str(uuid.uuid4()) may give
TracedEntries == {"classify_texts", "generate_categories", "batch_translate"}

MaxPipeRows == 2     \* rows of the table sent through the pipeline
MaxPageBatches == 2  \* batches of a classification run started from a page

Entries == {"pipeline", "pages", "classify_texts", "generate_categories", "translate",
            "translate_text", "batch_translate", "async_batch_analyze",
            "batch_classify", "is_valid_text", "filter_invalid_text",
            "preprocess_data", "batch_texts", "dataframe_to_markdown_tables",
            "session", "LanguageModelChain"}

VARIABLES
  entry,                  \* entry point invoked in this run
  session_id,             \* session_id argument of the run
  call_sessions,          \* session ids carried by the model calls of the run
  twin,                   \* the same run under another session id: its
                          \* session_id, its accumulated values (acc) and the
                          \* value it returns (out)
  \* ---- classify_texts
  df,                     \* preprocessed dataset: sequence of rows
  classification_batch_size,
  cls_columns,            \* [id_column, text_column] arguments
  is_multi_label,         \* multi-label mode
  tbl,                    \* number of markdown tables already iterated
  classification_results, \* accumulated list of records
  call_log,               \* model calls made: <<table index, reply>> in call order
  checkpoint,             \* content of the checkpoint csv (a list of records)
  writes,                 \* number of successful checkpoint writes
  write_failed,           \* tables whose checkpoint write raised
  cpc,                    \* position in classify_texts
  df_merged,              \* df.merge(...) before the key columns are dropped
  df_result,              \* table returned by classify_texts
  \* ---- generate_categories
  gen_rows,               \* rows of the dataset that survive preprocess_data
  gen_batch_size,         \* batch_size argument
  gen_column,             \* text_column argument
  gen_log,                \* model calls made, in call order
  gen_m,                  \* number of text batches produced by batch_texts
  gen_i,                  \* text batches already sent to the model
  categories_list,        \* per-batch category lists collected so far
  merged_categories,      \* result of merge_categories
  merged_fields,          \* keys of the object merge_categories returned
  gpc,                    \* position in generate_categories
  \* ---- translation and content analysis (bounded fan-out)
  texts,                  \* input items; a text is a sequence of code points
  hung,                   \* items whose model call never returns
  max_concurrent,         \* permits of the semaphore
  sem,                    \* current value of the semaphore
  tstate,                 \* per item: pending, inflight, done, failed, cancelled
  tresult,                \* per item: value its coroutine returned
  reply_kind,             \* per item: kind of reply the model gave ("none" before)
  calls,                  \* per item: number of model invocations
  completed,              \* items of the current gather in completion order
  chunk,                  \* batch_classify: offset of the current chunk
  acc,                    \* batch_classify: results list extended per chunk
  fpc,                    \* position of the caller: running, returned, raised
  loop_open,              \* the event loop still runs the remaining tasks
  results,                \* list returned to the caller
  \* ---- text utilities
  text_in,                \* argument of is_valid_text: a sequence of characters
  valid,                  \* value is_valid_text returned
  raw_df,                 \* table handed to the utility: rows in index order
  out_df,                 \* table the utility returned
  batch_size,             \* batch_size / rows_per_table argument
  table_options,          \* cols, nan_drop_method and output_format arguments
  markdown_tables,        \* the markdown text of each table
  batches,                \* list of batches the utility returned
  tpc,                    \* position of the utility call: start, done, raised
  \* ---- a session of the clustering page
  data_source,            \* none, uploaded (the uploader holds the file), demo
  uploaded_file,          \* rows of the file the uploader holds
  df_preprocessed,        \* st.session_state.df_preprocessed
  first_id,               \* per row of the file: the unique_id it was first given
  clicks,                 \* button clicks handled since the data was loaded
  \* ---- LanguageModelChain construction
  model_cls,              \* kind of the schema argument
  sys_msg,                \* kind of the system template argument
  user_msg,               \* kind of the user template argument
  model,                  \* kind of the model argument
  kpc,                    \* start, built, raised
  \* ---- preprocess_data followed by classify_texts on a table with more columns
  pipe_in,                \* the table given: rows as functions column -> cell
  pipe_pre,               \* the table preprocess_data returns
  pipe_records,           \* classification_results of classify_texts
  pipe_out,               \* the table classify_texts returns
  ppc,                    \* position in the pipeline
  \* ---- two browser sessions of the clustering page
  page_session,           \* st.session_state.session_id of each page session
  page_pc,                \* what the script thread of each session is doing
  page_left,              \* batches left in the running classify_texts
  page_runs,              \* classification runs started in each session
  writers                 \* checkpoint files being written: <<session, path>>

clsVars == <<df, classification_batch_size, cls_columns, is_multi_label, tbl, classification_results,
             call_log, checkpoint, writes, write_failed, cpc, df_merged,
             df_result>>

genVars == <<gen_rows, gen_batch_size, gen_column, gen_log, gen_m, gen_i, categories_list, merged_categories, merged_fields, gpc>>

fanVars == <<texts, hung, max_concurrent, sem, tstate, tresult, reply_kind, calls,
             completed, chunk, acc, fpc, loop_open, results>>

txtVars == <<text_in, valid, raw_df, out_df, batch_size, table_options,
             markdown_tables, batches, tpc>>

sesVars == <<data_source, uploaded_file, df_preprocessed, first_id, clicks>>

chnVars == <<model_cls, sys_msg, user_msg, model, kpc>>

pipVars == <<pipe_in, pipe_pre, pipe_records, pipe_out, ppc>>

pagVars == <<page_session, page_pc, page_left, page_runs, writers>>

extVars == <<txtVars, sesVars, chnVars, pipVars, pagVars>>

runVars == <<session_id, call_sessions, twin>>

vars == <<entry, runVars, clsVars, genVars, fanVars, extVars>>

\* ------------------------------------------------------- generic helpers
RECURSIVE SeqsUpTo(_, _)
SeqsUpTo(S, n) ==
  IF n = 0 THEN {<<>>}
  ELSE LET shorter == SeqsUpTo(S, n - 1)
       IN shorter \cup {Append(s, x) : s \in {t \in shorter : Len(t) = n - 1}, x \in S}

RECURSIVE Flatten(_)
Flatten(ss) == IF ss = <<>> THEN <<>> ELSE Head(ss) \o Flatten(Tail(ss))

Min(a, b) == IF a < b THEN a ELSE b

\* ============================================================ classify_texts

\* generate_unique_ids: the k-th row gets the counter value k ("ID%06d" % k)
GenerateUniqueIds(n) == [k \in 1..n |-> [unique_id |-> k, text |-> k]]

\* dataframe_to_markdown_tables: contiguous slices of rows_per_table rows
NumTables(n, rows_per_table) == (n + rows_per_table - 1) \div rows_per_table

MarkdownTables(d, rows_per_table) ==
  [t \in 1..NumTables(Len(d), rows_per_table) |->
     SubSeq(d, (t - 1) * rows_per_table + 1, Min(t * rows_per_table, Len(d)))]

\* replies of the classification chain to a table of k rows of a dataset of
\* n rows: a parsed object with a "classifications" list, a parsed object
\* without that key, or an exception.  The list holds at most k records, in
\* any order; their ids are any row id of the dataset or one id that matches
\* no row, so records may be missing, repeated or foreign
MultiLabelValues == {<<"A">>, <<"B">>, <<"A", "B">>, <<"B", "A">>}

RecordSet(n) ==
  IF is_multi_label
    THEN [id : 1..(n + 1), categories : MultiLabelValues]
    ELSE [id : 1..(n + 1), categories : Categories]

ClassifyReplies(n, k) ==
  {[kind |-> "ok", classifications |-> rs] : rs \in SeqsUpTo(RecordSet(n), k)}
  \cup {[kind |-> kd, classifications |-> <<>>] : kd \in {"nokey", "raise"}}

\* a plausible slip: a failed batch yields a placeholder record
ClassifySingleBatchPlaceholder(reply) ==
  IF reply.kind = "ok" THEN reply.classifications
  ELSE <<[id |-> NoId, categories |-> Null]>>

\* create_langfuse_handler: the config of a model call; the session id is
\* carried in its metadata
CreateLangfuseHandler(id, step) ==
  [metadata |-> [langfuse_session_id |-> id, step |-> step]]

\* columns of the preprocessed dataset
DfColumns == {"unique_id", "text"}

\* the argument checks of dataframe_to_markdown_tables
ValidTableArguments(columns, cols, rows_per_table, how, output_format) ==
  /\ \A k \in 1..Len(cols) : cols[k] \in columns
  /\ rows_per_table > 0
  /\ how \in {"any", "all"}
  /\ output_format \in {"list", "dataframe"}

\* the head of classify_texts: config, chain, then the markdown tables;
\* dataframe_to_markdown_tables raises ValueError on a bad argument
ClassifyTextsStart ==
  /\ entry = "classify_texts"
  /\ cpc = "start"
  /\ cpc' = IF ValidTableArguments(DfColumns, cls_columns,
                                   classification_batch_size, "any", "list")
             THEN "loop" ELSE "rejected"
  /\ UNCHANGED <<entry, runVars, df, classification_batch_size, cls_columns,
                 is_multi_label, tbl, classification_results, call_log,
                 checkpoint, writes, write_failed, df_merged, df_result>>
  /\ UNCHANGED <<genVars, fanVars, extVars>>

\* classify_single_batch: result["classifications"], or [] on any exception
ClassifySingleBatch(reply) ==
  IF reply.kind = "ok" THEN reply.classifications ELSE <<>>

\* a plausible slip: only the batch just classified is written
SavedLastBatch(accumulated, result) == result

\* the list handed to save_temp_results: classification_results after extend
SavedResults(accumulated, result) == accumulated \o result

\* a plausible slip: extend placed after the write inside the try
ExtendedIfSaved(accumulated, result, saveOk) ==
  IF saveOk THEN accumulated \o result ELSE accumulated

\* classification_results.extend(result), before save_temp_results is called
ExtendedResults(accumulated, result, saveOk) == accumulated \o result

\* one iteration of the for-loop of classify_texts, together with
\* save_temp_results; saveOk = FALSE is an OSError while writing, caught by
\* the except of the loop body
ClassifyBatch(reply, saveOk) ==
  /\ entry = "classify_texts"
  /\ cpc = "loop"
  /\ tbl < NumTables(Len(df), classification_batch_size)
  /\ LET result == ClassifySingleBatch(reply)
         extended == ExtendedResults(classification_results, result, saveOk)
         config == CreateLangfuseHandler(session_id, "classify_texts")
         twin_config == CreateLangfuseHandler(twin.session_id, "classify_texts")
     IN /\ classification_results' = extended
        /\ call_log' = Append(call_log, [table |-> tbl + 1, reply |-> reply])
        /\ call_sessions' =
             call_sessions \cup {config.metadata.langfuse_session_id}
        /\ twin' = [twin EXCEPT
                      !.calls = @ \cup {twin_config.metadata.langfuse_session_id},
                      !.acc = ExtendedResults(@, result, saveOk)]
        /\ IF saveOk
             THEN /\ checkpoint' = SavedResults(classification_results, result)
                  /\ writes' = writes + 1
                  /\ UNCHANGED write_failed
             ELSE /\ write_failed' = write_failed \cup {tbl + 1}
                  /\ UNCHANGED <<checkpoint, writes>>
  /\ tbl' = tbl + 1
  /\ UNCHANGED <<entry, session_id, df, classification_batch_size, cls_columns,
                 is_multi_label, cpc,
                 df_merged, df_result>>
  /\ UNCHANGED <<genVars, fanVars, extVars>>

ClassifyBatchStep ==
  /\ cpc = "loop"
  /\ \E t \in 1..NumTables(Len(df), classification_batch_size) :
    /\ t = tbl + 1
    /\ \E reply \in ClassifyReplies(Len(df),
                       Len(MarkdownTables(df, classification_batch_size)[t])),
          saveOk \in BOOLEAN : ClassifyBatch(reply, saveOk)

\* a plausible slip: the join walks the records, not the dataset rows
RECURSIVE LeftMergeByRecord(_, _)
LeftMergeByRecord(left, right) ==
  IF right = <<>> THEN <<>>
  ELSE LET r == Head(right)
           hit == SelectSeq(left, LAMBDA row : row.unique_id = r.id)
           rows == [k \in 1..Len(hit) |->
                      [unique_id |-> hit[k].unique_id, text |-> hit[k].text,
                       id |-> r.id, categories |-> r.categories]]
       IN rows \o LeftMergeByRecord(left, Tail(right))

\* df.merge(df_classifications, left_on="unique_id", right_on="id", how="left"):
\* for each left row in order, one output row per matching record (in record
\* order), or one row with NaN in the right-hand columns when nothing matches
RECURSIVE LeftMerge(_, _)
LeftMerge(left, right) ==
  IF left = <<>> THEN <<>>
  ELSE LET row == Head(left)
           hit == SelectSeq(right, LAMBDA r : r.id = row.unique_id)
           rows == IF hit = <<>>
                     THEN <<[unique_id |-> row.unique_id, text |-> row.text,
                             id |-> NoId, categories |-> Null]>>
                     ELSE [k \in 1..Len(hit) |->
                             [unique_id |-> row.unique_id, text |-> row.text,
                              id |-> hit[k].id, categories |-> hit[k].categories]]
       IN rows \o LeftMerge(Tail(left), right)

\* df_result.drop(columns=["unique_id", "id"])
DropKeyColumns(t) ==
  [k \in 1..Len(t) |-> [text |-> t[k].text, categories |-> t[k].categories]]

\* add_prefix("category_") on the column labels 0, 1, ... of apply(pd.Series)
PrefixedColumn(j) == "category_" \o ToString(j)

\* pd.Series(cell): a list becomes one entry per position, NaN one NaN entry
CellSeries(row) == IF row.id = NoId THEN <<Null>> ELSE row.categories

RECURSIVE MaxWidth(_)
MaxWidth(t) ==
  IF t = <<>> THEN 0
  ELSE LET w == Len(CellSeries(Head(t)))
           rest == MaxWidth(Tail(t))
       IN IF w > rest THEN w ELSE rest

\* the multi-label branch after the merge: the key columns and categories are
\* dropped, df_result["categories"].apply(pd.Series).add_prefix("category_")
\* is concatenated: one column per list position, NaN where a list is shorter
ExpandCategories(t) ==
  LET width == MaxWidth(t)
      names == {PrefixedColumn(j) : j \in 0..(width - 1)}
      pos(c) == CHOOSE j \in 0..(width - 1) : PrefixedColumn(j) = c
  IN [k \in 1..Len(t) |->
        [text |-> t[k].text,
         cols |-> [c \in names |->
                     IF pos(c) < Len(CellSeries(t[k]))
                       THEN CellSeries(t[k])[pos(c) + 1] ELSE Null]]]

\* pd.DataFrame([]) has no columns, so right_on="id" is a KeyError
HasIdColumn(records) == records # <<>>

\* the table classify_texts returns for the records collected
ClassifiedTable(rows, records, multi) ==
  IF multi THEN ExpandCategories(LeftMerge(rows, records))
  ELSE DropKeyColumns(LeftMerge(rows, records))

\* the code after the loop: build the records table, join, drop the keys
ClassifyAssemble ==
  /\ entry = "classify_texts"
  /\ cpc = "loop"
  /\ tbl = NumTables(Len(df), classification_batch_size)
  /\ IF HasIdColumn(classification_results)
       THEN /\ df_merged' = LeftMerge(df, classification_results)
            /\ df_result' = ClassifiedTable(df, classification_results,
                                            is_multi_label)
            /\ cpc' = "returned"
       ELSE /\ cpc' = "raised"
            /\ UNCHANGED <<df_merged, df_result>>
  /\ twin' = [twin EXCEPT
                !.out = IF HasIdColumn(twin.acc)
                          THEN ClassifiedTable(df, twin.acc, is_multi_label)
                          ELSE <<>>]
  /\ UNCHANGED <<entry, session_id, call_sessions, df,
                 classification_batch_size, cls_columns, is_multi_label, tbl,
                 classification_results, call_log, checkpoint, writes,
                 write_failed>>
  /\ UNCHANGED <<genVars, fanVars, extVars>>

\* ======================================================= generate_categories

\* replies of the category chain: a parsed category list, or an exception
GenReplies ==
  {[kind |-> "ok", categories |-> c] : c \in {<<"A">>, <<"A", "B">>}}
  \cup {[kind |-> k, categories |-> <<>>] : k \in {"raise", "badjson", "nofield"}}

\* prompt | model | JsonOutputParser: the model call raises, or the parser
\* raises on a response that is not JSON; a JSON object is returned as parsed
ChainRaises(reply) == reply.kind \in {"raise", "badjson"}

\* keys of the parsed object
ParsedFields(reply) == IF reply.kind = "ok" THEN {"categories"} ELSE {}

\* len(range(0, n, step)): a negative step gives an empty range; a step of
\* zero is a ValueError and is never passed here
RangeLen(n, step) == IF step < 0 THEN 0 ELSE NumTables(n, step)

\* the head of generate_categories: the default session id, preprocess_data
\* (filter_invalid_text raises ValueError on a missing column), batch_texts
\* (range raises ValueError on a zero step)
GenerateCategoriesStart(uuid) ==
  /\ entry = "generate_categories"
  /\ gpc = "start"
  /\ session_id' = IF session_id = NoSession THEN uuid ELSE session_id
  /\ IF gen_column \notin DfColumns \/ gen_batch_size = 0
       THEN gpc' = "raised" /\ UNCHANGED gen_m
       ELSE gpc' = "generate" /\ gen_m' = RangeLen(gen_rows, gen_batch_size)
  /\ UNCHANGED <<entry, call_sessions, twin, gen_rows, gen_batch_size,
                 gen_column, gen_log, gen_i, categories_list,
                 merged_categories, merged_fields, clsVars, fanVars, extVars>>

\* the dict generate_categories returns, without the preprocessed table
GenerateCategoriesReturn(merged, id) ==
  [categories |-> merged, session_id |-> id]

\* one iteration of the for-loop of generate_initial_categories; the call is
\* not guarded, so an exception leaves generate_categories
GenerateInitialCategories(reply) ==
  /\ entry = "generate_categories"
  /\ gpc = "generate"
  /\ gen_i < gen_m
  /\ gen_i' = gen_i + 1
  /\ LET config == CreateLangfuseHandler(session_id, "initial_categories")
         twin_config == CreateLangfuseHandler(twin.session_id,
                                              "initial_categories")
     IN /\ gen_log' = Append(gen_log, [step |-> config.metadata.step,
                                       batch |-> gen_i + 1,
                                       given |-> <<>>,
                                       reply |-> reply])
        /\ call_sessions' =
             call_sessions \cup {config.metadata.langfuse_session_id}
        /\ twin' = [twin EXCEPT
                      !.calls = @ \cup {twin_config.metadata.langfuse_session_id},
                      !.acc = IF ~ChainRaises(reply)
                                THEN Append(@, reply.categories) ELSE @]
  /\ IF ~ChainRaises(reply)
       THEN categories_list' = Append(categories_list, reply.categories)
            /\ UNCHANGED gpc
       ELSE gpc' = "raised" /\ UNCHANGED categories_list
  /\ UNCHANGED <<entry, session_id, gen_rows, gen_batch_size, gen_column,
                 gen_m, merged_categories, merged_fields, clsVars, fanVars,
                 extVars>>

\* merge_categories: one call after the loop, result returned as it is
MergeCategories(reply) ==
  /\ entry = "generate_categories"
  /\ gpc = "generate"
  /\ gen_i = gen_m
  /\ LET config == CreateLangfuseHandler(session_id, "merge_categories")
         twin_config == CreateLangfuseHandler(twin.session_id,
                                              "merge_categories")
     IN /\ gen_log' = Append(gen_log, [step |-> config.metadata.step,
                                       batch |-> 0,
                                       given |-> categories_list,
                                       reply |-> reply])
        /\ call_sessions' =
             call_sessions \cup {config.metadata.langfuse_session_id}
        /\ twin' = [twin EXCEPT
                      !.calls = @ \cup {twin_config.metadata.langfuse_session_id},
                      !.out = IF ~ChainRaises(reply)
                                THEN GenerateCategoriesReturn(
                                       reply.categories, twin.session_id)
                                ELSE @]
  /\ IF ~ChainRaises(reply)
       THEN /\ merged_categories' = reply.categories
            /\ merged_fields' = ParsedFields(reply)
            /\ gpc' = "returned"
       ELSE gpc' = "raised" /\ UNCHANGED <<merged_categories, merged_fields>>
  /\ UNCHANGED <<entry, session_id, gen_rows, gen_batch_size, gen_column,
                 gen_m, gen_i, categories_list, clsVars, fanVars, extVars>>

GenerateStep == \E reply \in GenReplies : GenerateInitialCategories(reply)

MergeStep == \E reply \in GenReplies : MergeCategories(reply)

\* ================================================================ translation

\* re.findall("[\u4e00-\u9fff]", text): code points 0x4E00 .. 0x9FFF
IsChineseChar(c) == c >= 19968 /\ c <= 40959

ChineseChars(text) == SelectSeq(text, IsChineseChar)

\* a plausible slip, the reading of the docstring ("more than 50%")
ContainsChineseStrict(text) ==
  IF text # <<>> THEN 2 * Len(ChineseChars(text)) > Len(text) ELSE FALSE

\* contains_chinese: len(chinese_chars) / len(text) >= 0.5 if text else False
\* (k / n >= 0.5 over the rationals is 2 * k >= n)
ContainsChinese(text) ==
  IF text # <<>> THEN 2 * Len(ChineseChars(text)) >= Len(text) ELSE FALSE

\* input texts: empty, all CJK, no CJK, exactly half (upper end of the range),
\* code points just outside the range, one third
SampleTexts ==
  {<<>>, <<19968>>, <<97>>, <<40959, 97>>, <<19967, 40960>>, <<19968, 97, 98>>}

\* replies of the translation chain: an object with translated_text, a parsed
\* value without that key, or an exception of ainvoke
TranslateReplies ==
  {[kind |-> "ok", value |-> v] : v \in {<<20013>>, <<25991>>}}
  \cup {[kind |-> k, value |-> <<>>] : k \in {"nokey", "raise"}}

\* str(e) of the exception Translator.translate re-raises
ErrorMessage(reply) == IF reply.kind = "nokey" THEN <<118>> ELSE <<101>>

\* f"<U+7FFB U+8BD1 U+9519 U+8BEF>: {str(e)}", the inline error string
ErrorText(msg) == <<32763, 35793, 38169, 35823, 58, 32>> \o msg

\* a plausible slip: the handler of translate returns instead of re-raising
TranslateSwallow(reply) ==
  [raised |-> FALSE, value |-> reply.value]

\* Translator.translate after ainvoke: _validate_translation_result, then
\* result["translated_text"]; both except clauses re-raise
Translate(reply) ==
  IF reply.kind = "ok"
    THEN [raised |-> FALSE, value |-> reply.value]
    ELSE [raised |-> TRUE, value |-> ErrorMessage(reply)]

\* ============================================================ content analysis

BatchClassifySize == 3          \* batch_size in batch_classify
BatchClassifyConcurrency == 3   \* max_concurrency passed by batch_classify

AnalysisValues ==
  {[validity |-> "valid", sentiment_class |-> s, sensitive_info |-> "no"] :
     s \in {"positive", "negative"}}

NoAnalysis == [validity |-> Null, sentiment_class |-> Null, sensitive_info |-> Null]

\* replies of the analysis chain: a conforming object, an object that
\* ContentAnalysisResult(**result) rejects, or an exception of ainvoke
AnalyzeReplies ==
  {[kind |-> "ok", value |-> v] : v \in AnalysisValues}
  \cup {[kind |-> k, value |-> NoAnalysis] : k \in {"invalid", "raise"}}

\* async_analyze_text after ainvoke: ContentAnalysisResult(**result)
AsyncAnalyzeText(reply) ==
  IF reply.kind = "ok"
    THEN [raised |-> FALSE, value |-> reply.value]
    ELSE [raised |-> TRUE, value |-> NoAnalysis]

\* ============================================================ bounded fan-out

Items == 1..Len(texts)

\* items of the gather that is being awaited
CallItems ==
  IF entry = "batch_classify"
    THEN (chunk + 1)..Min(chunk + BatchClassifySize, Len(texts))
    ELSE Items

\* the same items as the list of coroutines handed to asyncio.gather
CallItemSeq ==
  LET lo == IF entry = "batch_classify" THEN chunk ELSE 0
  IN [k \in 1..Cardinality(CallItems) |-> lo + k]

InFlight == {i \in Items : tstate[i] = "inflight"}

\* a plausible slip: entering the block without waiting for a permit
CanAcquireAlways(s) == TRUE

\* async with semaphore: the block is entered only while the value is positive
CanAcquire(s) == s > 0

\* a plausible slip: results collected as the calls complete
GatherByCompletion(items, tres, order) ==
  [k \in 1..Len(items) |-> tres[order[k]]]

\* asyncio.gather(*tasks): the k-th element is the result of the k-th awaitable
GatherResults(items, tres, order) ==
  [k \in 1..Len(items) |-> tres[items[k]]]

\* gather hands the first exception to its awaiter
Propagate(pc) == IF pc = "running" THEN "raised" ELSE pc

\* ---- batch_translate (called by perform_translation under asyncio.run)

\* a plausible slip: every call is traced under an id of its own
TranslateSessionPerCall(id, uuid) == uuid

\* Translator.translate: the session id given, or a new one when it is None
TranslateSession(id, uuid) == IF id = NoSession THEN uuid ELSE id

\* translate_with_semaphore up to its first suspension: acquire, skip check,
\* then either return the text (releasing at once) or start the model call
BatchTranslateStart(i, uuid) ==
  /\ entry = "batch_translate"
  /\ loop_open
  /\ i \in Items
  /\ tstate[i] = "pending"
  /\ CanAcquire(sem)
  /\ IF ContainsChinese(texts[i])
       THEN /\ tstate' = [tstate EXCEPT ![i] = "done"]
            /\ tresult' = [tresult EXCEPT ![i] = texts[i]]
            /\ completed' = Append(completed, i)
            /\ twin' = [twin EXCEPT !.acc[i] = texts[i]]
            /\ UNCHANGED <<sem, calls, call_sessions>>
       ELSE /\ tstate' = [tstate EXCEPT ![i] = "inflight"]
            /\ sem' = sem - 1
            /\ calls' = [calls EXCEPT ![i] = @ + 1]
            /\ LET config == CreateLangfuseHandler(
                               TranslateSession(session_id, uuid), "translate")
                   twin_config == CreateLangfuseHandler(
                               TranslateSession(twin.session_id, uuid), "translate")
               IN /\ call_sessions' = call_sessions
                       \cup {config.metadata.langfuse_session_id}
                  /\ twin' = [twin EXCEPT !.calls = @
                       \cup {twin_config.metadata.langfuse_session_id}]
            /\ UNCHANGED <<tresult, completed>>
  /\ UNCHANGED <<entry, session_id, texts, hung,
                 max_concurrent, reply_kind, chunk, acc, fpc,
                 loop_open, results, clsVars, genVars, extVars>>

\* the model call of item i finishes: Translator.translate returns or raises,
\* the permit is released on both paths
BatchTranslateResume(i, reply) ==
  /\ entry = "batch_translate"
  /\ loop_open
  /\ i \in Items
  /\ tstate[i] = "inflight"
  /\ i \notin hung
  /\ reply_kind' = [reply_kind EXCEPT ![i] = reply.kind]
  /\ sem' = sem + 1
  /\ LET out == Translate(reply)
     IN IF out.raised
          THEN /\ tstate' = [tstate EXCEPT ![i] = "failed"]
               /\ fpc' = Propagate(fpc)
               /\ UNCHANGED <<tresult, completed, twin>>
          ELSE /\ tstate' = [tstate EXCEPT ![i] = "done"]
               /\ tresult' = [tresult EXCEPT ![i] = out.value]
               /\ completed' = Append(completed, i)
               /\ twin' = [twin EXCEPT !.acc[i] = out.value]
               /\ UNCHANGED fpc
  /\ UNCHANGED <<entry, session_id, call_sessions, texts, hung,
                 max_concurrent, calls, chunk, acc, loop_open,
                 results, clsVars, genVars, extVars>>

\* every coroutine returned: gather returns the list, perform_translation
\* stores it as the translated_text column and returns
BatchTranslateGather ==
  /\ entry = "batch_translate"
  /\ fpc = "running"
  /\ \A i \in Items : tstate[i] = "done"
  /\ results' = GatherResults(CallItemSeq, tresult, completed)
  /\ twin' = [twin EXCEPT
                !.out = GatherResults(CallItemSeq, twin.acc, completed)]
  /\ fpc' = "returned"
  /\ loop_open' = FALSE
  /\ UNCHANGED <<entry, session_id, call_sessions, texts, hung,
                 max_concurrent, sem, tstate, tresult, reply_kind,
                 calls, completed, chunk, acc, clsVars, genVars, extVars>>

\* asyncio.run after its main coroutine raised: the tasks that have not
\* finished are cancelled (a cancelled call gives its permit back), the loop
\* is closed and the exception reaches the caller of perform_translation /
\* batch_classify
Shutdown ==
  /\ entry \in {"batch_translate", "async_batch_analyze", "batch_classify"}
  /\ fpc = "raised"
  /\ loop_open
  /\ loop_open' = FALSE
  /\ tstate' = [i \in Items |->
                  IF tstate[i] \in {"pending", "inflight"} THEN "cancelled"
                  ELSE tstate[i]]
  /\ sem' = sem + Cardinality(InFlight)
  /\ UNCHANGED <<entry, runVars, texts, hung,
                 max_concurrent, tresult, reply_kind, calls,
                 completed, chunk, acc, fpc, results, clsVars, genVars, extVars>>

\* the model call of item i turns out never to return: no timeout is passed
\* to ainvoke and nothing cancels the call while the event loop runs
Hang(i) ==
  /\ entry \in {"batch_translate", "async_batch_analyze"}
  /\ loop_open
  /\ i \in Items
  /\ tstate[i] = "inflight"
  /\ i \notin hung
  /\ hung' = hung \cup {i}
  /\ UNCHANGED <<entry, runVars, texts, max_concurrent, sem, tstate, tresult,
                 reply_kind, calls, completed, chunk, acc, fpc, loop_open,
                 results, clsVars, genVars, extVars>>

\* ---- async_batch_analyze, alone or called per chunk by batch_classify

\* analyze_with_semaphore up to its first suspension
AnalyzeStart(i) ==
  /\ entry \in {"async_batch_analyze", "batch_classify"}
  /\ loop_open
  /\ i \in CallItems
  /\ tstate[i] = "pending"
  /\ CanAcquire(sem)
  /\ tstate' = [tstate EXCEPT ![i] = "inflight"]
  /\ sem' = sem - 1
  /\ calls' = [calls EXCEPT ![i] = @ + 1]
  /\ UNCHANGED <<entry, runVars, texts, hung,
                 max_concurrent, tresult, reply_kind, completed,
                 chunk, acc, fpc, loop_open, results, clsVars, genVars, extVars>>

\* the model call of item i finishes: async_analyze_text returns or raises
AnalyzeResume(i, reply) ==
  /\ entry \in {"async_batch_analyze", "batch_classify"}
  /\ loop_open
  /\ i \in CallItems
  /\ tstate[i] = "inflight"
  /\ i \notin hung
  /\ reply_kind' = [reply_kind EXCEPT ![i] = reply.kind]
  /\ sem' = sem + 1
  /\ LET out == AsyncAnalyzeText(reply)
     IN IF out.raised
          THEN /\ tstate' = [tstate EXCEPT ![i] = "failed"]
               /\ fpc' = Propagate(fpc)
               /\ UNCHANGED <<tresult, completed>>
          ELSE /\ tstate' = [tstate EXCEPT ![i] = "done"]
               /\ tresult' = [tresult EXCEPT ![i] = out.value]
               /\ completed' = Append(completed, i)
               /\ UNCHANGED fpc
  /\ UNCHANGED <<entry, runVars, texts, hung,
                 max_concurrent, calls, chunk, acc, loop_open,
                 results, clsVars, genVars, extVars>>

\* gather of async_batch_analyze returns; batch_classify extends its results
\* list and moves to the next chunk, which gets a fresh semaphore
AnalyzeGather ==
  /\ entry \in {"async_batch_analyze", "batch_classify"}
  /\ fpc = "running"
  /\ entry = "batch_classify" => chunk < Len(texts)
  /\ \A i \in CallItems : tstate[i] = "done"
  /\ LET batch_results == GatherResults(CallItemSeq, tresult, completed)
     IN IF entry = "async_batch_analyze"
          THEN /\ results' = batch_results
               /\ fpc' = "returned"
               /\ loop_open' = FALSE
               /\ UNCHANGED <<acc, chunk, completed>>
          ELSE /\ acc' = acc \o batch_results
               /\ chunk' = chunk + BatchClassifySize
               /\ completed' = <<>>
               /\ UNCHANGED <<results, fpc, loop_open>>
  /\ UNCHANGED <<entry, runVars, texts, hung,
                 max_concurrent, sem, tstate, tresult, reply_kind,
                 calls, clsVars, genVars, extVars>>

\* batch_classify after its last chunk: the list of model_dump()s, which the
\* page writes to rows 0..n-1 in list order
BatchClassifyReturn ==
  /\ entry = "batch_classify"
  /\ fpc = "running"
  /\ chunk >= Len(texts)
  /\ results' = acc
  /\ fpc' = "returned"
  /\ loop_open' = FALSE
  /\ UNCHANGED <<entry, runVars, texts, hung,
                 max_concurrent, sem, tstate, tresult, reply_kind,
                 calls, completed, chunk, acc, clsVars, genVars, extVars>>

\* ---- single-item translation

\* Translator.translate called directly: config, then await ainvoke
TranslatorInvoke ==
  /\ entry = "translate"
  /\ fpc = "running"
  /\ tstate[1] = "pending"
  /\ tstate' = [tstate EXCEPT ![1] = "inflight"]
  /\ calls' = [calls EXCEPT ![1] = @ + 1]
  /\ UNCHANGED <<entry, runVars, texts, hung,
                 max_concurrent, sem, tresult, reply_kind,
                 completed, chunk, acc, fpc, loop_open, results, clsVars, genVars, extVars>>

\* ainvoke finished: validation, return of the text or re-raise
TranslatorResume(reply) ==
  /\ entry = "translate"
  /\ tstate[1] = "inflight"
  /\ reply_kind' = [reply_kind EXCEPT ![1] = reply.kind]
  /\ LET out == Translate(reply)
     IN IF out.raised
          THEN /\ tstate' = [tstate EXCEPT ![1] = "failed"]
               /\ fpc' = "raised"
               /\ UNCHANGED <<tresult, results>>
          ELSE /\ tstate' = [tstate EXCEPT ![1] = "done"]
               /\ tresult' = [tresult EXCEPT ![1] = out.value]
               /\ results' = <<out.value>>
               /\ fpc' = "returned"
  /\ loop_open' = FALSE
  /\ UNCHANGED <<entry, runVars, texts, hung,
                 max_concurrent, sem, calls, completed, chunk,
                 acc, clsVars, genVars, extVars>>

\* translate_text up to its first suspension: skip check, then the call
TranslateTextStart ==
  /\ entry = "translate_text"
  /\ fpc = "running"
  /\ tstate[1] = "pending"
  /\ IF ContainsChinese(texts[1])
       THEN /\ tstate' = [tstate EXCEPT ![1] = "done"]
            /\ tresult' = [tresult EXCEPT ![1] = texts[1]]
            /\ results' = <<texts[1]>>
            /\ fpc' = "returned"
            /\ loop_open' = FALSE
            /\ UNCHANGED calls
       ELSE /\ tstate' = [tstate EXCEPT ![1] = "inflight"]
            /\ calls' = [calls EXCEPT ![1] = @ + 1]
            /\ UNCHANGED <<tresult, results, fpc, loop_open>>
  /\ UNCHANGED <<entry, runVars, texts, hung,
                 max_concurrent, sem, reply_kind, completed,
                 chunk, acc, clsVars, genVars, extVars>>

\* translator.translate finished inside the try of translate_text: the
\* translation is returned, an exception becomes the inline error string
TranslateTextResume(reply) ==
  /\ entry = "translate_text"
  /\ tstate[1] = "inflight"
  /\ reply_kind' = [reply_kind EXCEPT ![1] = reply.kind]
  /\ LET out == Translate(reply)
     IN IF out.raised
          THEN /\ tstate' = [tstate EXCEPT ![1] = "failed"]
               /\ tresult' = [tresult EXCEPT ![1] = ErrorText(out.value)]
               /\ results' = <<ErrorText(out.value)>>
          ELSE /\ tstate' = [tstate EXCEPT ![1] = "done"]
               /\ tresult' = [tresult EXCEPT ![1] = out.value]
               /\ results' = <<out.value>>
  /\ fpc' = "returned"
  /\ loop_open' = FALSE
  /\ UNCHANGED <<entry, runVars, texts, hung,
                 max_concurrent, sem, calls, completed, chunk,
                 acc, clsVars, genVars, extVars>>

\* =============================================================== text utils
\* characters, by the classes the patterns of is_valid_text tell apart
Letters == {"a", "b", "c"}          \* \p{L}
Digits == {"1", "2", "3", "4"}      \* \p{N}, str.isdigit
Spaces == {" ", "\n"}               \* \s, removed by str.strip
Punctuation == {"?", "'", "_"}      \* \p{P}
Backtick == "BACKQUOTE"             \* the backquote character, by name
Symbols == {"$", Backtick}          \* none of the classes above
LineBreak == "\n"                   \* the character "." does not match
CarriageReturn == "\r"
NaNCell == <<"NaN">>                \* a missing cell (pd.isna)

IsNa(t) == t = NaNCell

RECURSIVE LStrip(_)
LStrip(t) == IF t # <<>> /\ Head(t) \in Spaces THEN LStrip(Tail(t)) ELSE t

RECURSIVE RStrip(_)
RStrip(t) ==
  IF t # <<>> /\ t[Len(t)] \in Spaces
    THEN RStrip(SubSeq(t, 1, Len(t) - 1)) ELSE t

\* str.strip()
Strip(t) == RStrip(LStrip(t))

CharSet(t) == {t[k] : k \in 1..Len(t)}

\* t[a..b] repeats one character (an empty range does)
Constant(t, a, b) == \A k \in a..b : t[k] = t[a]

\* a plausible variant of the pattern: {0,1}, at most two runs
MatchesTwoRuns(t) ==
  /\ t # <<>>
  /\ LineBreak \notin CharSet(t)
  /\ \E i \in 1..Len(t) : Constant(t, 1, i) /\ Constant(t, i + 1, Len(t))

\* re.match(r"^(.)\1*(?:(.)\2*){0,2}$", text): a repeated character followed
\* by at most two further groups of a repeated character
MatchesRuns(t) ==
  /\ t # <<>>
  /\ LineBreak \notin CharSet(t)
  /\ \E i \in 1..Len(t) : \E j \in i..Len(t) :
       /\ Constant(t, 1, i)
       /\ Constant(t, i + 1, j)
       /\ Constant(t, j + 1, Len(t))

\* a plausible slip: any digit instead of all digits
IsDigitAny(t) == CharSet(t) \cap Digits # {}

\* str.isdigit()
IsDigit(t) == t # <<>> /\ CharSet(t) \subseteq Digits

IsValidText(cell) ==
  IF IsNa(cell) THEN FALSE
  ELSE LET t == Strip(cell)
       IN ~ \/ t = <<>>
            \/ CharSet(t) \subseteq (Spaces \cup Punctuation)
            \/ IsDigit(t)
            \/ Cardinality(CharSet(t)) = 1
            \/ MatchesRuns(t)
            \/ CharSet(t) \cap (Letters \cup Digits) = {}

\* ---- clean_text_columns
QuoteChars == {"'", "\"", "{", "}"}

ReplaceQuotes(t) ==
  [k \in 1..Len(t) |-> IF t[k] \in QuoteChars THEN Backtick ELSE t[k]]

RECURSIVE CollapseUnderscores(_)
CollapseUnderscores(t) ==
  IF Len(t) < 2 THEN t
  ELSE IF t[1] = "_" /\ t[2] = "_" THEN CollapseUnderscores(Tail(t))
  ELSE <<t[1]>> \o CollapseUnderscores(Tail(t))

RECURSIVE CollapseSpaces(_)
CollapseSpaces(t) ==
  IF t = <<>> THEN <<>>
  ELSE LET rest == LStrip(t)
           run == Len(t) - Len(rest)
       IN IF run >= 2 THEN <<" ">> \o CollapseSpaces(rest)
          ELSE <<Head(t)>> \o CollapseSpaces(Tail(t))

CleanText(cell) ==
  IF IsNa(cell) THEN <<>>
  ELSE CollapseSpaces(CollapseUnderscores(ReplaceQuotes(cell)))

CleanTextColumns(rows) ==
  [k \in 1..Len(rows) |-> [rows[k] EXCEPT !.text = CleanText(rows[k].text)]]

\* ---- filter_invalid_text
\* a plausible slip: the stripped text is stored back into the kept rows
FilterStoringStripped(rows) ==
  LET kept == SelectSeq(rows, LAMBDA r : IsValidText(r.text))
  IN [k \in 1..Len(kept) |-> [kept[k] EXCEPT !.text = Strip(kept[k].text)]]

\* df[df[text_col].apply(is_valid_text)]
FilterInvalidText(rows) == SelectSeq(rows, LAMBDA r : IsValidText(r.text))

\* the frame passed in, after clean_text_columns: the columns are assigned on
\* df.copy()
ArgumentAfterClean(rows) == rows

\* the frame passed in, after filter_invalid_text: boolean indexing builds a
\* new frame, the stripped text is a local
ArgumentAfterFilter(rows) == rows

\* ---- preprocess_data
\* f"{i:06d}"
ZeroPad6(i) ==
  IF i < 10 THEN "00000" \o ToString(i)
  ELSE IF i < 100 THEN "0000" \o ToString(i)
  ELSE IF i < 1000 THEN "000" \o ToString(i)
  ELSE IF i < 10000 THEN "00" \o ToString(i)
  ELSE IF i < 100000 THEN "0" \o ToString(i)
  ELSE ToString(i)

FormatId(i) == "ID" \o ZeroPad6(i)

\* generate_unique_ids on a table: row k of the table gets the k-th id
GenerateUniqueIdsFor(rows) ==
  [k \in 1..Len(rows) |->
     [idx |-> rows[k].idx, text |-> rows[k].text, unique_id |-> FormatId(k)]]

\* a plausible slip: the ids are assigned before the invalid rows are dropped
PreprocessIdsFirst(rows) ==
  FilterInvalidText(GenerateUniqueIdsFor(CleanTextColumns(rows)))

PreprocessData(rows) ==
  GenerateUniqueIdsFor(FilterInvalidText(CleanTextColumns(rows)))

\* ---- inputs
TextAlphabet == Letters \cup Digits \cup {"?", " ", LineBreak, "$"}

SampleCells ==
  { <<>>, NaNCell,
    <<"?", "?", "?">>,
    <<"a", "b", "c", "1">>,
    <<" ", "a", "b", "1", "c">>,
    <<"a", "'", Backtick, "b">>,
    <<"a", "b", "c">> }

IndexRows(cells) == [k \in 1..Len(cells) |-> [idx |-> k, text |-> cells[k]]]

IsValidTextCall ==
  /\ entry = "is_valid_text"
  /\ tpc = "start"
  /\ valid' = IsValidText(text_in)
  /\ tpc' = "done"
  /\ UNCHANGED <<entry, runVars, text_in, raw_df, out_df, batch_size, table_options,
                 markdown_tables, batches, clsVars,
                 genVars, fanVars, sesVars, chnVars,
                 pipVars, pagVars>>

FilterInvalidTextCall ==
  /\ entry = "filter_invalid_text"
  /\ tpc = "start"
  /\ out_df' = FilterInvalidText(raw_df)
  /\ raw_df' = ArgumentAfterFilter(raw_df)
  /\ tpc' = "done"
  /\ UNCHANGED <<entry, runVars, text_in, valid, batch_size, table_options,
                 markdown_tables, batches, clsVars,
                 genVars, fanVars, sesVars, chnVars,
                 pipVars, pagVars>>

PreprocessDataCall ==
  /\ entry = "preprocess_data"
  /\ tpc = "start"
  /\ out_df' = PreprocessData(raw_df)
  /\ raw_df' = ArgumentAfterFilter(ArgumentAfterClean(raw_df))
  /\ tpc' = "done"
  /\ UNCHANGED <<entry, runVars, text_in, valid, batch_size, table_options,
                 markdown_tables, batches, clsVars,
                 genVars, fanVars, sesVars, chnVars,
                 pipVars, pagVars>>

\* ================================================================= batching
\* df.dropna(subset=cols, how="any"): rows with a missing cell are left out
DropNa(rows) == SelectSeq(rows, LAMBDA r : ~IsNa(r.text))

\* str.replace("\r\n|\n", " ", regex=True): each "\r\n" and each "\n" becomes
\* one space, left to right
RECURSIVE ReplaceLineBreaks(_)
ReplaceLineBreaks(t) ==
  IF t = <<>> THEN <<>>
  ELSE IF Len(t) >= 2 /\ t[1] = CarriageReturn /\ t[2] = LineBreak
    THEN <<" ">> \o ReplaceLineBreaks(SubSeq(t, 3, Len(t)))
  ELSE IF t[1] = LineBreak
    THEN <<" ">> \o ReplaceLineBreaks(Tail(t))
  ELSE <<t[1]>> \o ReplaceLineBreaks(Tail(t))

\* a plausible slip: dropna(..., inplace=True)
ArgumentAfterDropnaInplace(rows) == DropNa(rows)

\* the frame passed in, after df.dropna(subset=cols, how=...): dropna returns
\* a new frame, and the replacement of line breaks is assigned to that one
ArgumentAfterDropna(rows) == rows

\* a plausible slip: the slice ends one row early
SliceShort(rows, start, size) ==
  SubSeq(rows, start + 1, Min(start + size - 1, Len(rows)))

\* rows.iloc[start : start + size]
Slice(rows, start, size) ==
  SubSeq(rows, start + 1, Min(start + size, Len(rows)))

\* range(0, n, size), as a sequence
RangeStep(n, size) == [b \in 1..NumTables(n, size) |-> (b - 1) * size]

RowIndex(rows) == [k \in 1..Len(rows) |-> rows[k].idx]

RowTexts(rows) == [k \in 1..Len(rows) |-> rows[k].text]

\* the batches of dataframe_to_markdown_tables, each as the index labels and
\* the text cells of the rows its table holds
DataframeToMarkdownTables(rows, rows_per_table) ==
  LET cleaned_df == DropNa(rows)
      table_data == [k \in 1..Len(cleaned_df) |->
                       [cleaned_df[k] EXCEPT
                          !.text = ReplaceLineBreaks(cleaned_df[k].text)]]
      starts == RangeStep(Len(table_data), rows_per_table)
  IN [b \in 1..Len(starts) |->
        LET table_subset == Slice(table_data, starts[b], rows_per_table)
        IN [idx |-> RowIndex(table_subset), content |-> RowTexts(table_subset)]]

\* " | ".join(cells), as a sequence of characters
RECURSIVE JoinCells(_)
JoinCells(cells) ==
  IF cells = <<>> THEN <<>>
  ELSE IF Len(cells) = 1 THEN cells[1]
  ELSE cells[1] \o <<" ", "|", " ">> \o JoinCells(Tail(cells))

\* "| " + " | ".join(cells) + " |\n"
TableLine(cells) == <<"|", " ">> \o JoinCells(cells) \o <<" ", "|", LineBreak>>

RECURSIVE TableRows(_)
TableRows(texts_) ==
  IF texts_ = <<>> THEN <<>>
  ELSE TableLine(<<Head(texts_)>>) \o TableRows(Tail(texts_))

\* table_header + table_separator + table_rows for cols = ["text"]
MarkdownText(content) ==
  TableLine(<<<<"t", "e", "x", "t">>>>) \o TableLine(<<<<"-", "-", "-">>>>)
    \o TableRows(content)

\* " ".join(list of texts)
RECURSIVE JoinTexts(_)
JoinTexts(ts) ==
  IF ts = <<>> THEN <<>>
  ELSE IF Len(ts) = 1 THEN ts[1]
  ELSE ts[1] \o <<" ">> \o JoinTexts(Tail(ts))

\* the batches of batch_texts, each as the index labels of the rows joined
\* and the joined text
BatchTexts(rows, size) ==
  LET starts == RangeStep(Len(rows), size)
  IN [b \in 1..Len(starts) |->
        LET part == Slice(rows, starts[b], size)
        IN [idx |-> RowIndex(part), content |-> JoinTexts(RowTexts(part))]]

BatchCells == {NaNCell, <<"a">>, <<"a", LineBreak, "b">>,
               <<"a", CarriageReturn, "b">>,
               <<"a", CarriageReturn, LineBreak, "b">>}

\* nan_drop_method="any", output_format="list"
DefaultOptions ==
  [cols |-> <<"text">>, nan_drop_method |-> "any", output_format |-> "list"]

\* the option arguments of dataframe_to_markdown_tables
TableOptions ==
  {DefaultOptions,
   [cols |-> <<"text">>, nan_drop_method |-> "all", output_format |-> "dataframe"],
   [cols |-> <<"content">>, nan_drop_method |-> "any", output_format |-> "list"],
   [cols |-> <<"text">>, nan_drop_method |-> "some", output_format |-> "list"],
   [cols |-> <<"text">>, nan_drop_method |-> "any", output_format |-> "json"]}

\* str.join raises TypeError on a missing (float) text
BatchTextsCall ==
  /\ entry = "batch_texts"
  /\ tpc = "start"
  /\ IF \E k \in 1..Len(raw_df) : IsNa(raw_df[k].text)
       THEN tpc' = "raised" /\ UNCHANGED batches
       ELSE tpc' = "done" /\ batches' = BatchTexts(raw_df, batch_size)
  /\ UNCHANGED <<entry, runVars, text_in, valid, raw_df, out_df, batch_size,
                 table_options, markdown_tables, clsVars,
                 genVars, fanVars, sesVars, chnVars,
                 pipVars, pagVars>>

\* a bad argument is a ValueError before anything is built
DataframeToMarkdownTablesCall ==
  /\ entry = "dataframe_to_markdown_tables"
  /\ tpc = "start"
  /\ IF ValidTableArguments({"text"}, table_options.cols, batch_size,
                            table_options.nan_drop_method,
                            table_options.output_format)
       THEN /\ batches' = DataframeToMarkdownTables(raw_df, batch_size)
            /\ markdown_tables' =
                 [b \in 1..Len(batches') |-> MarkdownText(batches'[b].content)]
            /\ raw_df' = ArgumentAfterDropna(raw_df)
            /\ tpc' = "done"
       ELSE /\ tpc' = "raised"
            /\ UNCHANGED <<batches, markdown_tables, raw_df>>
  /\ UNCHANGED <<entry, runVars, text_in, valid, out_df, batch_size, table_options, clsVars,
                 genVars, fanVars, sesVars, chnVars,
                 pipVars, pagVars>>

\* ============================================== session of the clustering page
SessionCells == {<<>>, <<"a", "b", "c", "1">>}

\* the table the page works on in a run of the script: while the uploader
\* holds a file, every run reads it again, numbers its rows and stores it
CurrentDf ==
  IF data_source = "uploaded"
    THEN GenerateUniqueIdsFor(uploaded_file) ELSE df_preprocessed

\* a file is chosen in the uploader: its rows are numbered and stored
UploadFile(cells) ==
  /\ entry = "session"
  /\ data_source = "none"
  /\ data_source' = "uploaded"
  /\ uploaded_file' = IndexRows(cells)
  /\ df_preprocessed' = GenerateUniqueIdsFor(IndexRows(cells))
  /\ first_id' = [k \in DOMAIN first_id |->
                    IF k <= Len(cells) THEN FormatId(k) ELSE Null]
  /\ UNCHANGED <<entry, runVars, clicks, clsVars, genVars, fanVars, txtVars, chnVars,
                 pipVars, pagVars>>

\* the demo button: the demo rows are numbered and stored, no file is held
LoadDemo(cells) ==
  /\ entry = "session"
  /\ data_source = "none"
  /\ data_source' = "demo"
  /\ df_preprocessed' = GenerateUniqueIdsFor(IndexRows(cells))
  /\ first_id' = [k \in DOMAIN first_id |->
                    IF k <= Len(cells) THEN FormatId(k) ELSE Null]
  /\ UNCHANGED <<entry, runVars, uploaded_file, clicks, clsVars, genVars, fanVars,
                 txtVars, chnVars,
                 pipVars, pagVars>>

\* the clustering button: generate_categories preprocesses the current table;
\* its preprocessed_df is stored unless a model call raised
ClickGenerateCategories(ok) ==
  /\ entry = "session"
  /\ data_source # "none"
  /\ clicks < MaxClicks
  /\ clicks' = clicks + 1
  /\ df_preprocessed' = IF ok THEN PreprocessData(CurrentDf) ELSE CurrentDf
  /\ UNCHANGED <<entry, runVars, data_source, uploaded_file, first_id, clsVars, genVars,
                 fanVars, txtVars, chnVars,
                 pipVars, pagVars>>

\* the classification button: classify_texts reads the stored table
ClickClassifyTexts ==
  /\ entry = "session"
  /\ data_source # "none"
  /\ clicks < MaxClicks
  /\ clicks' = clicks + 1
  /\ df_preprocessed' = CurrentDf
  /\ UNCHANGED <<entry, runVars, data_source, uploaded_file, first_id, clsVars, genVars,
                 fanVars, txtVars, chnVars,
                 pipVars, pagVars>>

\* ============================================================ chain construction
SchemaKinds == {"BaseModel subclass", "other class", "not a class"}
TemplateKinds == {"text", "empty text", "not text"}
ModelKinds == {"has invoke", "no invoke"}

\* issubclass(model_cls, BaseModel); it raises TypeError on a non-class
IsSchemaClass(c) == c = "BaseModel subclass"

\* a plausible variant: an empty template is refused too
IsNonEmptyStr(m) == m = "text"

\* isinstance(m, str)
IsStr(m) == m \in {"text", "empty text"}

\* hasattr(model, "invoke")
HasInvoke(m) == m = "has invoke"

LanguageModelChainInit ==
  /\ entry = "LanguageModelChain"
  /\ kpc = "start"
  /\ kpc' = IF /\ IsSchemaClass(model_cls)
               /\ IsStr(sys_msg) /\ IsStr(user_msg)
               /\ HasInvoke(model)
             THEN "built" ELSE "raised"
  /\ UNCHANGED <<entry, runVars, model_cls, sys_msg, user_msg, model, clsVars, genVars,
                 fanVars, txtVars, sesVars,
                 pipVars, pagVars>>

\* ===================================================================== Init

\* ============================ preprocess_data, then classify_texts: columns
\* columns of the table given, besides the text column and a second column
\* of strings: none, or one named as a column the pipeline adds
ExtraColumns == {"none", "id", "categories", "unique_id"}

PipeTexts == {<<"a", "b", "c", "1">>, <<"?">>}

PipeNotes == {<<"x">>, <<"x", " ", " ", "y">>, NaNCell}

PipeRow(text, note, extra) ==
  [c \in {"text", "note"} \cup ({extra} \ {"none"}) |->
     IF c = "text" THEN text ELSE IF c = "note" THEN note ELSE <<"v">>]

\* clean_text_columns: _clean_text on every column of dtype object
CleanObjectColumns(rows) ==
  [k \in 1..Len(rows) |-> [c \in DOMAIN rows[k] |-> CleanText(rows[k][c])]]

\* a plausible slip: only the text column is cleaned
CleanObjectColumnsTextOnly(rows) ==
  [k \in 1..Len(rows) |->
     [c \in DOMAIN rows[k] |->
        IF c = "text" THEN CleanText(rows[k][c]) ELSE rows[k][c]]]

\* filter_invalid_text on the text column
FilterRows(rows) == SelectSeq(rows, LAMBDA r : IsValidText(r["text"]))

\* generate_unique_ids: df["unique_id"] = [...], a new column or the
\* replacement of the one that exists
AssignUniqueIds(rows) ==
  [k \in 1..Len(rows) |->
     [c \in DOMAIN rows[k] \cup {"unique_id"} |->
        IF c = "unique_id" THEN <<FormatId(k)>> ELSE rows[k][c]]]

\* the name a column gets in df.merge: a name on both sides that is not a
\* common key gets the suffix of its side
MergedName(c, others, suffix) == IF c \in others THEN c \o suffix ELSE c

\* df.merge(df_classifications, left_on="unique_id", right_on="id",
\* how="left") on tables whose rows are functions of the column names; the
\* records carry one record per row
MergeRow(row, rec) ==
  LET left == DOMAIN row
      right == DOMAIN rec
      names == {MergedName(c, right, "_x") : c \in left}
                 \cup {MergedName(c, left, "_y") : c \in right}
  IN [n \in names |->
        IF \E c \in left : MergedName(c, right, "_x") = n
          THEN row[CHOOSE c \in left : MergedName(c, right, "_x") = n]
          ELSE rec[CHOOSE c \in right : MergedName(c, left, "_y") = n]]

PipeRecord(row) == [c \in {"id", "categories"} |->
                      IF c = "id" THEN row["unique_id"] ELSE <<"A">>]

RecordFor(row, records) ==
  IF \E j \in 1..Len(records) : records[j]["id"] = row["unique_id"]
    THEN records[CHOOSE j \in 1..Len(records) :
                   records[j]["id"] = row["unique_id"]]
    ELSE [c \in {"id", "categories"} |-> <<Null>>]

\* df_result.drop(columns=[...]): KeyError when a name is not a column
CanDrop(row, names) == names \subseteq DOMAIN row

DropColumns(row, names) == [c \in DOMAIN row \ names |-> row[c]]

\* replies of the classification chain for the whole table in one batch
PipeReplies(rows) ==
  {[kind |-> "ok", classifications |-> [k \in 1..Len(rows) |-> PipeRecord(rows[k])]],
   [kind |-> "raise", classifications |-> <<>>]}

\* preprocess_data(df, "text")
PipelinePreprocess ==
  /\ entry = "pipeline"
  /\ ppc = "start"
  /\ pipe_pre' = AssignUniqueIds(FilterRows(CleanObjectColumns(pipe_in)))
  /\ ppc' = "preprocessed"
  /\ UNCHANGED <<entry, runVars, pipe_in, pipe_records, pipe_out, clsVars,
                 genVars, fanVars, txtVars, sesVars, chnVars, pagVars>>

\* classify_texts(preprocessed, "text", "unique_id", ..., single label), all
\* rows in one batch: the loop, then the merge and the drop of the key columns
PipelineClassify(reply) ==
  /\ entry = "pipeline"
  /\ ppc = "preprocessed"
  /\ pipe_records' = ClassifySingleBatch(reply)
  /\ LET merged == [k \in 1..Len(pipe_pre) |->
                      MergeRow(pipe_pre[k], RecordFor(pipe_pre[k], pipe_records'))]
     IN IF /\ HasIdColumn(pipe_records')
           /\ \A k \in 1..Len(merged) : CanDrop(merged[k], {"unique_id", "id"})
          THEN /\ pipe_out' = [k \in 1..Len(merged) |->
                                 DropColumns(merged[k], {"unique_id", "id"})]
               /\ ppc' = "returned"
          ELSE /\ ppc' = "raised"
               /\ UNCHANGED pipe_out
  /\ UNCHANGED <<entry, runVars, pipe_in, pipe_pre, clsVars, genVars, fanVars,
                 txtVars, sesVars, chnVars, pagVars>>

\* ==================================== checkpoint files of concurrent sessions
Pages == {1, 2}

\* os.path.join("data", "temp", f"classify_texts_{entity_type}_{task_id}.csv")
SaveTempPath(entity_type, task_id) ==
  <<"data", "temp", "classify_texts", entity_type, task_id, "csv">>

\* a plausible slip: one id for every session
FreshUuidsShared(used) == Uuids

\* str(uuid.uuid4()): an id no session has been given
FreshUuids(used) == Uuids \ used

UsedSessions == {page_session[q] : q \in Pages} \ {NoSession}

\* initialize_session_state in the first script run of a browser session
PageOpen(pg, uuid) ==
  /\ entry = "pages"
  /\ page_pc[pg] = "new"
  /\ uuid \in FreshUuids(UsedSessions)
  /\ page_session' = [page_session EXCEPT ![pg] = uuid]
  /\ page_pc' = [page_pc EXCEPT ![pg] = "idle"]
  /\ UNCHANGED <<entry, runVars, page_left, page_runs, writers, clsVars,
                 genVars, fanVars, txtVars, sesVars, chnVars, pipVars>>

\* the button is clicked: the script run of the session calls classify_texts
\* with the session id of the session, on a table of n batches; a click made
\* while the script runs is served by the same thread after the run
PageClassify(pg, n) ==
  /\ entry = "pages"
  /\ page_pc[pg] = "idle"
  /\ page_runs[pg] < MaxClicks
  /\ page_runs' = [page_runs EXCEPT ![pg] = @ + 1]
  /\ page_left' = [page_left EXCEPT ![pg] = n]
  /\ page_pc' = [page_pc EXCEPT ![pg] = "loop"]
  /\ UNCHANGED <<entry, runVars, page_session, writers, clsVars, genVars,
                 fanVars, txtVars, sesVars, chnVars, pipVars>>

\* save_temp_results opens the checkpoint file of the session
PageWriteOpen(pg) ==
  /\ entry = "pages"
  /\ page_pc[pg] = "loop"
  /\ page_left[pg] > 0
  /\ writers' = writers \cup
       {<<pg, SaveTempPath("text_classification", page_session[pg])>>}
  /\ page_pc' = [page_pc EXCEPT ![pg] = "writing"]
  /\ UNCHANGED <<entry, runVars, page_session, page_left, page_runs, clsVars,
                 genVars, fanVars, txtVars, sesVars, chnVars, pipVars>>

\* to_csv returns (or raises): the file is closed, the loop goes on, and
\* after the last batch classify_texts returns to the script
PageWriteClose(pg) ==
  /\ entry = "pages"
  /\ page_pc[pg] = "writing"
  /\ writers' = {w \in writers : w[1] # pg}
  /\ page_left' = [page_left EXCEPT ![pg] = @ - 1]
  /\ page_pc' = [page_pc EXCEPT ![pg] = IF page_left[pg] = 1 THEN "idle" ELSE "loop"]
  /\ UNCHANGED <<entry, runVars, page_session, page_runs, clsVars, genVars,
                 fanVars, txtVars, sesVars, chnVars, pipVars>>

InitPipeline ==
  /\ IF entry = "pipeline"
       THEN \E extra \in ExtraColumns :
              \E cells \in SeqsUpTo(PipeTexts \X PipeNotes, MaxPipeRows) :
                pipe_in = [k \in 1..Len(cells) |->
                             PipeRow(cells[k][1], cells[k][2], extra)]
       ELSE pipe_in = <<>>
  /\ pipe_pre = <<>>
  /\ pipe_records = <<>>
  /\ pipe_out = <<>>
  /\ ppc = "start"

InitPages ==
  /\ page_session = [pg \in Pages |-> NoSession]
  /\ page_pc = [pg \in Pages |-> "new"]
  /\ page_left = [pg \in Pages |-> 0]
  /\ page_runs = [pg \in Pages |-> 0]
  /\ writers = {}

InitClassify ==
  /\ IF entry = "classify_texts"
       THEN /\ is_multi_label \in BOOLEAN
            /\ \E n \in 0..(IF is_multi_label THEN MaxMultiRows ELSE MaxRows) :
                 df = GenerateUniqueIds(n)
            /\ classification_batch_size \in -1..MaxRows
            /\ cls_columns \in {<<"unique_id", "text">>, <<"unique_id", "content">>}
       ELSE /\ df = <<>> /\ classification_batch_size = 1
            /\ is_multi_label = FALSE
            /\ cls_columns = <<"unique_id", "text">>
  /\ tbl = 0
  /\ classification_results = <<>>
  /\ call_log = <<>>
  /\ checkpoint = <<>>
  /\ writes = 0
  /\ write_failed = {}
  /\ cpc = "start"
  /\ df_merged = <<>>
  /\ df_result = <<>>

InitGenerate ==
  /\ IF entry = "generate_categories"
       THEN /\ gen_rows \in 0..MaxGenBatches
            /\ gen_batch_size \in -1..2
            /\ gen_column \in {"text", "content"}
       ELSE gen_rows = 0 /\ gen_batch_size = 1 /\ gen_column = "text"
  /\ gen_m = 0
  /\ gen_log = <<>>
  /\ gen_i = 0
  /\ categories_list = <<>>
  /\ merged_categories = <<>>
  /\ merged_fields = {}
  /\ gpc = "start"

InitFanOut ==
  /\ CASE entry \in {"translate", "translate_text"} ->
            /\ texts \in {<<t>> : t \in SampleTexts}
            /\ max_concurrent = 0
       [] entry = "batch_translate" ->
            /\ texts \in SeqsUpTo(SampleTexts, MaxTexts)
            /\ max_concurrent \in 1..MaxPermits
       [] entry = "async_batch_analyze" ->
            /\ \E n \in 0..MaxTexts : texts = [k \in 1..n |-> <<97>>]
            /\ max_concurrent \in 1..MaxPermits
       [] entry = "batch_classify" ->
            /\ \E n \in 0..MaxAnalyze : texts = [k \in 1..n |-> <<97>>]
            /\ max_concurrent = BatchClassifyConcurrency
       [] OTHER ->
            /\ texts = <<>>
            /\ max_concurrent = 0
  /\ sem = max_concurrent
  /\ hung = {}
  /\ tstate = [i \in 1..Len(texts) |-> "pending"]
  /\ tresult = [i \in 1..Len(texts) |->
                  IF entry \in {"async_batch_analyze", "batch_classify"}
                    THEN NoAnalysis ELSE <<>>]
  /\ reply_kind = [i \in 1..Len(texts) |-> "none"]
  /\ calls = [i \in 1..Len(texts) |-> 0]
  /\ completed = <<>>
  /\ chunk = 0
  /\ acc = <<>>
  /\ fpc = "running"
  /\ loop_open = TRUE
  /\ results = <<>>

InitText ==
  /\ IF entry = "is_valid_text"
       THEN text_in \in SeqsUpTo(TextAlphabet, MaxLen) \cup {NaNCell}
       ELSE text_in = <<>>
  /\ valid = FALSE
  /\ CASE entry \in {"filter_invalid_text", "preprocess_data"} ->
            \E cells \in SeqsUpTo(SampleCells, MaxPreRows) :
              raw_df = IndexRows(cells)
       [] entry \in {"batch_texts", "dataframe_to_markdown_tables"} ->
            \E cells \in SeqsUpTo(BatchCells, MaxPreRows) :
              raw_df = IndexRows(cells)
       [] OTHER -> raw_df = <<>>
  /\ CASE entry = "batch_texts" ->
            batch_size \in 1..MaxBatch /\ table_options = DefaultOptions
       [] entry = "dataframe_to_markdown_tables" ->
            batch_size \in -1..MaxBatch /\ table_options \in TableOptions
       [] OTHER -> batch_size = 1 /\ table_options = DefaultOptions
  /\ markdown_tables = <<>>
  /\ batches = <<>>
  /\ out_df = <<>>
  /\ tpc = "start"

InitSession ==
  /\ data_source = "none"
  /\ uploaded_file = <<>>
  /\ df_preprocessed = <<>>
  /\ first_id = [k \in 1..MaxSessionRows |-> Null]
  /\ clicks = 0

InitChain ==
  /\ IF entry = "LanguageModelChain"
       THEN /\ model_cls \in SchemaKinds
            /\ sys_msg \in TemplateKinds
            /\ user_msg \in TemplateKinds
            /\ model \in ModelKinds
       ELSE /\ model_cls = "BaseModel subclass"
            /\ sys_msg = "text"
            /\ user_msg = "text"
            /\ model = "has invoke"
  /\ kpc = "start"

InitRun ==
  /\ IF entry = "generate_categories"
       THEN session_id \in {NoSession, "s1"}
       ELSE session_id = "s1"
  /\ call_sessions = {}
  /\ twin = [session_id |-> "s2",
             calls |-> {},
             acc |-> IF entry = "batch_translate"
                       THEN [i \in 1..Len(texts) |-> <<>>] ELSE <<>>,
             out |-> <<>>]

Init ==
  /\ entry \in Entries
  /\ InitSession
  /\ InitChain
  /\ InitClassify
  /\ InitGenerate
  /\ InitFanOut
  /\ InitText
  /\ InitRun
  /\ InitPipeline
  /\ InitPages

\* ===================================================================== Next

BatchTranslateStartStep ==
  \E i \in Items, uuid \in Uuids : BatchTranslateStart(i, uuid)

BatchTranslateResumeStep ==
  \E i \in Items, reply \in TranslateReplies : BatchTranslateResume(i, reply)

AnalyzeStartStep == \E i \in Items : AnalyzeStart(i)

AnalyzeResumeStep ==
  \E i \in Items, reply \in AnalyzeReplies : AnalyzeResume(i, reply)

TranslatorResumeStep == \E reply \in TranslateReplies : TranslatorResume(reply)

TranslateTextResumeStep == \E reply \in TranslateReplies : TranslateTextResume(reply)

UploadFileStep ==
  \E cells \in SeqsUpTo(SessionCells, MaxSessionRows) : UploadFile(cells)

LoadDemoStep ==
  \E cells \in SeqsUpTo(SessionCells, MaxSessionRows) : LoadDemo(cells)

ClickGenerateCategoriesStep == \E ok \in BOOLEAN : ClickGenerateCategories(ok)

Next ==
  \/ ClassifyTextsStart
  \/ ClassifyBatchStep
  \/ ClassifyAssemble
  \/ \E uuid \in Uuids : GenerateCategoriesStart(uuid)
  \/ GenerateStep
  \/ MergeStep
  \/ BatchTranslateStartStep
  \/ BatchTranslateResumeStep
  \/ BatchTranslateGather
  \/ Shutdown
  \/ \E i \in Items : Hang(i)
  \/ AnalyzeStartStep
  \/ AnalyzeResumeStep
  \/ AnalyzeGather
  \/ BatchClassifyReturn
  \/ TranslatorInvoke
  \/ TranslatorResumeStep
  \/ TranslateTextStart
  \/ TranslateTextResumeStep
  \/ IsValidTextCall
  \/ FilterInvalidTextCall
  \/ PreprocessDataCall
  \/ BatchTextsCall
  \/ DataframeToMarkdownTablesCall
  \/ UploadFileStep
  \/ LoadDemoStep
  \/ ClickGenerateCategoriesStep
  \/ ClickClassifyTexts
  \/ LanguageModelChainInit
  \/ PipelinePreprocess
  \/ \E reply \in PipeReplies(pipe_pre) : PipelineClassify(reply)
  \/ \E pg \in Pages, uuid \in Uuids : PageOpen(pg, uuid)
  \/ \E pg \in Pages, n \in 1..MaxPageBatches : PageClassify(pg, n)
  \/ \E pg \in Pages : PageWriteOpen(pg)
  \/ \E pg \in Pages : PageWriteClose(pg)

Spec == Init /\ [][Next]_vars

\* =================================================================== claims

FanEntries == {"batch_translate", "async_batch_analyze", "batch_classify"}

FailedReply(i) == reply_kind[i] \notin {"none", "ok"}

\* C1: in classify_texts every markdown table is sent to the model exactly
\* once and in input order, a failed batch is not retried and adds no record,
\* and the accumulated list is the concatenation, in batch order, of the
\* record lists of the batches that succeeded.
ThmC1_BatchesOnceInOrder ==
  entry = "classify_texts" =>
    /\ Len(call_log) = tbl
    /\ \A k \in 1..Len(call_log) : call_log[k].table = k
    /\ cpc \in {"returned", "raised"} =>
         tbl = NumTables(Len(df), classification_batch_size)
    /\ classification_results =
         Flatten([k \in 1..Len(call_log) |->
                    IF call_log[k].reply.kind = "ok"
                      THEN call_log[k].reply.classifications ELSE <<>>])

\* a run whose first batch raised and whose second batch returned records
WitC1_FailThenSuccess ==
  /\ entry = "classify_texts"
  /\ cpc = "returned"
  /\ Len(call_log) >= 2
  /\ call_log[1].reply.kind = "raise"
  /\ call_log[2].reply.kind = "ok"
  /\ call_log[2].reply.classifications # <<>>

\* C2: classify_texts returns normally for every pattern of failed or partial
\* batches, also when every batch fails and no record exists at all, and a
\* row without a classification record has null classification fields.
CexC2_AlwaysReturnsWithNulls ==
  entry = "classify_texts" =>
    /\ cpc # "raised"
    /\ cpc = "returned" =>
         \A p \in 1..Len(df_merged) :
           (\A k \in 1..Len(classification_results) :
              classification_results[k].id # df_merged[p].unique_id)
           => IF is_multi_label
                THEN \A c \in DOMAIN df_result[p].cols : df_result[p].cols[c] = Null
                ELSE df_result[p].categories = Null

\* C3: in perform_translation -> batch_translate a failed item only puts an
\* inline error string into its own slot, nothing is re-raised and every
\* other translation is returned.
CexC3_BatchTranslateIsolatesFailure ==
  entry = "batch_translate" =>
    /\ fpc # "raised"
    /\ fpc = "returned" =>
         \A i \in Items :
           /\ FailedReply(i) => \E msg \in {<<118>>, <<101>>} : results[i] = ErrorText(msg)
           /\ reply_kind[i] = "ok" => results[i] = tresult[i]

\* C4 (as stated): after a failed model call or validation the single-item
\* translation raises to its caller, one model call was made, and no text is
\* returned, both in Translator.translate and in translate_text.
CexC4_SingleItemAlwaysRaises ==
  (entry \in {"translate", "translate_text"} /\ FailedReply(1)) =>
    /\ fpc = "raised"
    /\ calls[1] = 1
    /\ results = <<>>

\* C4 (amended): Translator.translate raises to its caller after exactly one
\* model call and returns no text; translate_text makes exactly one model
\* call too, but catches the error and returns the inline error string.
ThmC4_TranslateRaisesWrapperCatches ==
  /\ (entry = "translate" /\ FailedReply(1)) =>
       /\ fpc = "raised"
       /\ calls[1] = 1
       /\ results = <<>>
  /\ (entry = "translate_text" /\ FailedReply(1)) =>
       /\ fpc = "returned"
       /\ calls[1] = 1
       /\ \E msg \in {<<118>>, <<101>>} : results = <<ErrorText(msg)>>

\* Translator.translate got a reply without translated_text and raised
WitC4_ValidationFailureRaised ==
  /\ entry = "translate"
  /\ reply_kind[1] = "nokey"
  /\ fpc = "raised"
  /\ calls[1] = 1

\* C5: a failed model call of one item (async_batch_analyze) or of one batch
\* (generate_initial_categories) does not abort the operation.
CexC5_BatchOperationsNeverAbort ==
  /\ entry \in {"async_batch_analyze", "batch_classify"} => fpc # "raised"
  /\ entry = "generate_categories" =>
       ~(gpc = "raised" /\ Len(categories_list) < gen_i)

\* C6: the number of model calls in flight never exceeds the permits of the
\* semaphore, in batch_translate and in async_batch_analyze.
ThmC6_InFlightBounded ==
  entry \in FanEntries => Cardinality(InFlight) <= max_concurrent

\* every permit is taken while another item that needs the model still waits
WitC6_Contention ==
  /\ entry = "batch_translate"
  /\ Cardinality(InFlight) = max_concurrent
  /\ \E i \in Items : tstate[i] = "pending" /\ ~ContainsChinese(texts[i])

\* C7: whatever the completion order, the returned list is as long as the
\* input and its i-th element is the result computed for the i-th item.
ThmC7_ResultsByIndex ==
  (entry \in FanEntries /\ fpc = "returned") =>
    /\ Len(results) = Len(texts)
    /\ \A i \in Items : tstate[i] = "done" /\ results[i] = tresult[i]

\* the second item completed before the first and their results differ
WitC7_OutOfOrderCompletion ==
  /\ entry = "batch_translate"
  /\ fpc = "returned"
  /\ completed = <<2, 1>>
  /\ results[1] # results[2]

\* the claim's own reading of "at least half of the characters are CJK"
MostlyCJK(text) ==
  /\ Len(text) >= 1
  /\ 2 * Cardinality({k \in 1..Len(text) : text[k] \in 19968..40959}) >= Len(text)

ThmC9_RowOrderKept ==
  (entry = "classify_texts" /\ cpc = "returned") =>
    /\ \A p, q \in 1..Len(df_result) : p < q => df_result[p].text <= df_result[q].text
    /\ {df_result[p].text : p \in 1..Len(df_result)} = {df[k].text : k \in 1..Len(df)}

\* the records arrived in the reverse of the row order
WitC9_RecordsReversed ==
  /\ entry = "classify_texts"
  /\ cpc = "returned"
  /\ Len(df) = 2
  /\ Len(classification_results) = 2
  /\ classification_results[1].id = 2
  /\ classification_results[2].id = 1

\* C10: the returned table has exactly one record per input row: unmatched
\* record ids add no row and repeated ids do not multiply a row.
CexC10_OneRecordPerRow ==
  (entry = "classify_texts" /\ cpc = "returned") =>
    /\ Len(df_result) = Len(df)
    /\ \A k \in 1..Len(df) : df_result[k].text = df[k].text

\* names a record list assigns to the rows, over all records
ObservedCategories ==
  UNION {{classification_results[k].categories[j] :
            j \in 1..Len(classification_results[k].categories)} :
         k \in 1..Len(classification_results)}

\* C11: in multi-label mode the returned table has one boolean column
\* category_<name> per category name observed in the records, true exactly for
\* the rows assigned that category and false otherwise.
CexC11_BooleanColumnPerCategory ==
  (entry = "classify_texts" /\ is_multi_label /\ cpc = "returned") =>
    \A p \in 1..Len(df_result) :
      /\ DOMAIN df_result[p].cols = {"category_" \o n : n \in ObservedCategories}
      /\ \A n \in ObservedCategories :
           df_result[p].cols["category_" \o n] =
             IF \E j \in 1..Len(CellSeries(df_merged[p])) :
                  CellSeries(df_merged[p])[j] = n
               THEN "True" ELSE "False"

IsPrefix(a, b) == Len(a) <= Len(b) /\ SubSeq(b, 1, Len(a)) = a

CumulativeRecords ==
  Flatten([k \in 1..Len(call_log) |->
             IF call_log[k].reply.kind = "ok"
               THEN call_log[k].reply.classifications ELSE <<>>])

Survivors ==
  {k \in 1..Len(raw_df) : IsValidText(CleanText(raw_df[k].text))}

\* C13: preprocess_data assigns the ids after filtering: the k surviving rows
\* carry ID000001 .. ID00000k in row order, whatever rows were dropped.
ThmC13_IdsAfterFiltering ==
  (entry = "preprocess_data" /\ tpc = "done") =>
    /\ Len(out_df) = Cardinality(Survivors)
    /\ \A j \in 1..Len(out_df) :
         /\ out_df[j].unique_id = "ID00000" \o ToString(j)
         /\ out_df[j].idx \in Survivors
    /\ \A i, j \in 1..Len(out_df) : i < j => out_df[i].idx < out_df[j].idx

\* the rows "", a valid text, "???" give one record, ID000001
WitC13_OnlyMiddleRowSurvives ==
  /\ entry = "preprocess_data"
  /\ tpc = "done"
  /\ raw_df = IndexRows(<< <<>>, <<"a", "b", "c", "1">>, <<"?", "?", "?">> >>)
  /\ out_df = <<[idx |-> 2, text |-> <<"a", "b", "c", "1">>,
                 unique_id |-> "ID000001"]>>

\* t holds n consecutive, pairwise distinct letters or digits
HasDistinctAlnumRun(t, n) ==
  \E a \in 1..(Len(t) - n + 1) :
    /\ \A k \in a..(a + n - 1) : t[k] \in Letters \cup Digits
    /\ Cardinality({t[k] : k \in a..(a + n - 1)}) = n

OneRepeatedChar(t) == t # <<>> /\ Cardinality(CharSet(t)) = 1

NumRuns(t) ==
  IF t = <<>> THEN 0
  ELSE 1 + Cardinality({k \in 1..(Len(t) - 1) : t[k] # t[k + 1]})

\* the drop rule for a trimmed text t, with the largest number of runs that is
\* still dropped and whether a text with a line break escapes the run rule
DropRule(t, maxRuns, lineBreakEscapes) ==
  \/ t = <<>>
  \/ CharSet(t) \subseteq (Spaces \cup Punctuation)
  \/ CharSet(t) \subseteq Digits
  \/ Cardinality(CharSet(t)) = 1
  \/ NumRuns(t) <= maxRuns /\ ~(lineBreakEscapes /\ LineBreak \in CharSet(t))
  \/ CharSet(t) \cap (Letters \cup Digits) = {}

\* rows of the call under check: the single text, or the rows of the table
DropChecked(maxRuns, lineBreakEscapes) ==
  /\ (entry = "is_valid_text" /\ tpc = "done" /\ ~IsNa(text_in)) =>
       (~valid <=> DropRule(Strip(text_in), maxRuns, lineBreakEscapes))
  /\ (entry = "filter_invalid_text" /\ tpc = "done") =>
       \A k \in 1..Len(raw_df) :
         ~IsNa(raw_df[k].text) =>
           ((\A j \in 1..Len(out_df) : out_df[j].idx # k)
              <=> DropRule(Strip(raw_df[k].text), maxRuns, lineBreakEscapes))

ThmC18_FilterSubsequence ==
  (entry = "filter_invalid_text" /\ tpc = "done") =>
    /\ \A j \in 1..Len(out_df) :
         /\ out_df[j].idx \in 1..Len(raw_df)
         /\ out_df[j] = raw_df[out_df[j].idx]
    /\ \A i, j \in 1..Len(out_df) : i < j => out_df[i].idx < out_df[j].idx

\* a row between two kept rows is dropped; a kept text has a leading blank
WitC18_MiddleRowDropped ==
  /\ entry = "filter_invalid_text"
  /\ tpc = "done"
  /\ Len(raw_df) = 3
  /\ Len(out_df) = 2
  /\ out_df[1].idx = 1
  /\ out_df[2].idx = 3
  /\ Head(out_df[2].text) = " "

\* ceil(n / size)
Ceil(n, size) == CHOOSE q \in 0..n : q * size >= n /\ (q - 1) * size < n

BatchEntries == {"batch_texts", "dataframe_to_markdown_tables"}

\* the batches hold the rows whose index labels are expected, in order, in
\* ceil(n / size) contiguous batches that are full except possibly the last
BatchesCover(expected) ==
  /\ Len(batches) = Ceil(Len(expected), batch_size)
  /\ \A b \in 1..Len(batches) :
       /\ Len(batches[b].idx) >= 1
       /\ Len(batches[b].idx) <= batch_size
       /\ b < Len(batches) => Len(batches[b].idx) = batch_size
  /\ Flatten([b \in 1..Len(batches) |-> batches[b].idx]) = expected

MissingRows == {k \in 1..Len(raw_df) : IsNa(raw_df[k].text)}

\* the arguments of the call are valid: a batch size B >= 1, an existing
\* column, known option values
ValidBatchArguments ==
  ValidTableArguments({"text"}, table_options.cols, batch_size,
                      table_options.nan_drop_method,
                      table_options.output_format)

IsTerminator(c) == c \in {LineBreak, CarriageReturn}

\* occurrences of "\r\n" in a text
CrLfPairs(t) ==
  Cardinality({c \in 1..(Len(t) - 1) :
                 t[c] = CarriageReturn /\ t[c + 1] = LineBreak})

CexC14_IdsNeverChange ==
  entry = "session" =>
    /\ \A k \in 1..Len(df_preprocessed) :
         df_preprocessed[k].unique_id = first_id[df_preprocessed[k].idx]
    /\ \A j, k \in 1..Len(df_preprocessed) :
         j # k => df_preprocessed[j].unique_id # df_preprocessed[k].unique_id

\* C19 as stated: construction fails whenever the schema is not an object
\* schema class, a template is empty or not text, or the model has no invoke.
CexC19_EmptyTemplateRefused ==
  (entry = "LanguageModelChain" /\ kpc # "start") =>
    ((\/ model_cls # "BaseModel subclass"
      \/ sys_msg # "text"
      \/ user_msg # "text"
      \/ model # "has invoke") => kpc = "raised")

\* C19 amended: construction fails, and no chain is produced, whenever the
\* schema is not an object schema class, a template is not text, or the model
\* has no invoke; an empty template is accepted.
ThmC19_NonTextTemplateRefused ==
  (entry = "LanguageModelChain" /\ kpc # "start") =>
    (kpc = "raised" <=>
       \/ model_cls # "BaseModel subclass"
       \/ sys_msg = "not text"
       \/ user_msg = "not text"
       \/ model # "has invoke")

WitC19_EmptyTemplateBuilt ==
  /\ entry = "LanguageModelChain"
  /\ kpc = "built"
  /\ sys_msg = "text"
  /\ user_msg = "empty text"

\* C20: a response that is not JSON or lacks a required field makes the chain
\* invocation fail; merge_categories never returns an object without the
\* required categories field.
CexC20_RequiredFieldEnforced ==
  (entry = "generate_categories" /\ gpc = "returned") =>
    "categories" \in merged_fields

\* records the model returned for table k
BatchRecords(k) ==
  IF call_log[k].reply.kind = "ok" THEN call_log[k].reply.classifications ELSE <<>>

\* C30: a failure while writing the checkpoint after a batch neither aborts
\* classify_texts nor loses data: the batch's records are in the cumulative
\* result, the remaining batches are processed, the run does not raise
\* because of it, and the returned table carries that batch's classifications.
ThmC30_WriteFailureHarmless ==
  entry = "classify_texts" =>
    /\ classification_results = CumulativeRecords
    /\ cpc \in {"returned", "raised"} =>
         tbl = NumTables(Len(df), classification_batch_size)
    /\ cpc = "raised" => CumulativeRecords = <<>>
    /\ cpc = "returned" =>
         \A k \in write_failed : \A j \in 1..Len(BatchRecords(k)) :
           LET rec == BatchRecords(k)[j]
           IN rec.id \in 1..Len(df) =>
                \E p \in 1..Len(df_merged) :
                  /\ df_merged[p].unique_id = rec.id
                  /\ df_merged[p].categories = rec.categories

\* the write after the first of two tables failed; its record is returned
WitC30_FailedWriteThenReturned ==
  /\ entry = "classify_texts"
  /\ cpc = "returned"
  /\ tbl = 2
  /\ write_failed = {1}
  /\ checkpoint # <<>>
  /\ BatchRecords(1) # <<>>
  /\ BatchRecords(1)[1].id = 1
  /\ BatchRecords(2) = <<>>


\* ------------------------------------------------------------------ C21
MalformedClassify ==
  /\ entry = "classify_texts"
  /\ \/ classification_batch_size <= 0
     \/ \E k \in 1..Len(cls_columns) : cls_columns[k] \notin DfColumns

MalformedGenerate ==
  /\ entry = "generate_categories"
  /\ gen_batch_size <= 0 \/ gen_column \notin DfColumns

MalformedTables ==
  /\ entry = "dataframe_to_markdown_tables"
  /\ \/ table_options.output_format \notin {"list", "dataframe"}
     \/ table_options.nan_drop_method \notin {"any", "all"}

\* C21 as stated: classify_texts or generate_categories given a non-positive
\* batch size or a column that does not exist, and
\* dataframe_to_markdown_tables given an unsupported output_format or
\* nan_drop_method, are rejected at once: the call ends in an error, nothing
\* is built and no model call is made.
CexC21_MalformedRejected ==
  /\ MalformedClassify => cpc \in {"start", "rejected"} /\ call_log = <<>>
  /\ MalformedGenerate => gpc \in {"start", "raised"} /\ gen_log = <<>>
  /\ MalformedTables => tpc \in {"start", "raised"} /\ batches = <<>>

\* ------------------------------------------------------------------ C26
\* C26 as stated: a run of generate_categories whose dataset gives m batches
\* makes exactly m generation calls, in batch order, collects m lists, and
\* then exactly one merge call, which is the last call and is given all m
\* lists.
CexC26_OneCallPerBatchThenMerge ==
  (/\ entry = "generate_categories"
   /\ gpc \in {"returned", "raised"}
   /\ gen_column \in DfColumns
   /\ gen_batch_size >= 1) =>
    LET m == NumTables(gen_rows, gen_batch_size)
    IN /\ Len(gen_log) = m + 1
       /\ \A k \in 1..m :
            gen_log[k].step = "initial_categories" /\ gen_log[k].batch = k
       /\ gen_log[m + 1].step = "merge_categories"
       /\ Len(gen_log[m + 1].given) = m
       /\ \A k \in 1..m : gen_log[m + 1].given[k] = gen_log[k].reply.categories

\* ------------------------------------------------------------------ C25
HangEntries == {"batch_translate", "async_batch_analyze"}

\* C25 as stated: while a model call of batch_translate or async_batch_analyze
\* never returns, its permit stays taken and the batch call does not end; with
\* as many hung calls as permits no further item starts its call.
CexC25_HungCallBlocksForever ==
  (entry \in HangEntries /\ hung # {}) =>
    /\ \A i \in hung : tstate[i] = "inflight"
    /\ sem <= max_concurrent - Cardinality(hung)
    /\ fpc = "running"
    /\ Cardinality(hung) = max_concurrent =>
         \A i \in Items : i \notin hung /\ tstate[i] # "done" => calls[i] = 0 \/ tstate[i] = "failed"

\* ------------------------------------------------------------------ C29
\* item i has entered the block guarded by the semaphore
Acquired(i) == tstate[i] \in {"inflight", "done", "failed"} \/ calls[i] >= 1

LineCount(t) ==
  Cardinality({c \in 1..Len(t) :
                 \/ t[c] = LineBreak
                 \/ t[c] = CarriageReturn
                      /\ (c = Len(t) \/ t[c + 1] # LineBreak)})

\* C28 as stated: the markdown table of k records has k + 2 lines, one per
\* record after the header and the separator, whatever line terminators the
\* texts contain.
CexC28_OneLinePerRecord ==
  (entry = "dataframe_to_markdown_tables" /\ tpc = "done") =>
    \A b \in 1..Len(markdown_tables) :
      LineCount(markdown_tables[b]) = Len(batches[b].content) + 2

\* ------------------------------------------------------------------ C23
FrameEntries == {"batch_texts", "dataframe_to_markdown_tables",
                 "filter_invalid_text", "preprocess_data"}

\* C23: batch_texts, dataframe_to_markdown_tables and classify_texts leave
\* the table passed to them as it was, and so do clean_text_columns and
\* filter_invalid_text (also when called by preprocess_data): no step of
\* these calls changes the rows of the caller's table.
ThmC23_InputsUnchanged ==
  [][/\ entry \in FrameEntries => raw_df' = raw_df
     /\ entry = "classify_texts" => df' = df]_vars

\* a table with a missing text and a text with a line break has been turned
\* into markdown tables and still holds both
WitC23_DirtyTableKept ==
  /\ entry = "dataframe_to_markdown_tables"
  /\ tpc = "done"
  /\ batches # <<>>
  /\ MissingRows # {}
  /\ \E k \in 1..Len(raw_df) : \E c \in 1..Len(raw_df[k].text) :
       raw_df[k].text[c] = LineBreak

\* ------------------------------------------------------------------ C24
\* C24: every model call of a run of generate_categories, classify_texts or
\* batch_translate carries the session id of the run, and the same run under
\* another session id, given the same model responses, returns the same
\* categories, the same classification table, the same translations.
ThmC24_SessionIdConfined ==
  entry \in TracedEntries =>
    /\ call_sessions \subseteq {session_id}
    /\ twin.calls \subseteq {twin.session_id}
    /\ twin.session_id # session_id
    /\ (entry = "classify_texts" /\ cpc = "returned") => twin.out = df_result
    /\ (entry = "generate_categories" /\ gpc = "returned") =>
         twin.out.categories = merged_categories
    /\ (entry = "batch_translate" /\ fpc = "returned") => twin.out = results

\* two translations were made, each run under its own session id
WitC24_TwoCallsTwoSessions ==
  /\ entry = "batch_translate"
  /\ fpc = "returned"
  /\ Len(texts) = 2
  /\ calls[1] = 1 /\ calls[2] = 1
  /\ call_sessions = {"s1"}
  /\ twin.calls = {"s2"}
  /\ results[1] # results[2]

\* ------------------------------------------------------------------ C22
\* rows of the table given that survive the validity filter, in order
PipeSurvivors ==
  SelectSeq(pipe_in, LAMBDA r : IsValidText(CleanText(r["text"])))

\* C22 as stated: when the model classifies the rows, the pipeline returns a
\* table in which every surviving row has every column of the input other
\* than the text column, under its name and with its value, also when the
\* input has a column named id, categories or unique_id.
CexC22_OtherColumnsUntouched ==
  (entry = "pipeline" /\ ppc \in {"returned", "raised"}
     /\ pipe_records # <<>>) =>
    /\ ppc = "returned"
    /\ Len(pipe_out) = Len(PipeSurvivors)
    /\ \A k \in 1..Len(pipe_out) :
         \A c \in DOMAIN PipeSurvivors[k] \ {"text"} :
           /\ c \in DOMAIN pipe_out[k]
           /\ pipe_out[k][c] = PipeSurvivors[k][c]

\* ------------------------------------------------------------------ C27
\* C27: at every moment a checkpoint path has at most one writer: a session
\* of the page writes one file at a time, and sessions that classify at the
\* same time write files of different paths.
ThmC27_OneWriterPerPath ==
  entry = "pages" =>
    /\ \A w1 \in writers : \A w2 \in writers : w1[2] = w2[2] => w1 = w2
    /\ \A pg \in Pages : Cardinality({w \in writers : w[1] = pg}) <= 1
    /\ \A w \in writers :
         w[2] = SaveTempPath("text_classification", page_session[w[1]])

\* both sessions are writing their checkpoint at the same moment
WitC27_TwoSessionsWriting ==
  /\ entry = "pages"
  /\ page_pc[1] = "writing" /\ page_pc[2] = "writing"
  /\ Cardinality(writers) = 2
  /\ page_runs[1] = 2

====
